---- MODULE Spec2Model ----
(***************************************************************************)
(* The commit log of proglog (internal/log): store, index, segment, Log.   *)
(* Files are byte sequences; an open file is held by the number of the     *)
(* file, which outlives its name; the index mmap is the index file's       *)
(* content (a MAP_SHARED mapping). In-memory segments live in a heap of    *)
(* objects addressed by id, as the Go code holds them by pointer.          *)
(***************************************************************************)
EXTENDS Integers, Sequences, FiniteSets, TLC

\* ------------------------------------------------------------------ bounds
MaxAppends == 2      \* Append calls per behaviour
MaxOff == 3          \* largest offset / watermark handed to Read and Truncate
ReadBufLen == 16     \* the buffer a consumer of Log.Reader reads through
MaxCalls == 3        \* calls made by the threads of the concurrent specification
MaxSegAppends == 5   \* Append calls on the segment of the segment specification

\* --------------------------------------------------------------- constants
offWidth == 4
posWidth == 8
entWidth == offWidth + posWidth
lenWidth == 8
DefaultMaxStoreBytes == 1024
DefaultMaxIndexBytes == 1024

\* Payloads (Record.Value) offered to Append.
Values == { <<>>, <<7, 8, 9>> }

\* A payload that stands for a record proto.Marshal returns an error for.
Unserializable == <<-1>>

\* Configurations handed to NewLog (before its defaulting). MaxIndexBytes 12
\* holds one entry exactly, 30 holds two and a tail shorter than an entry, 5
\* holds none; MaxStoreBytes 10 makes the store fill before the index.
Configs ==
    { [MaxStoreBytes |-> 0,  MaxIndexBytes |-> 12, InitialOffset |-> 0],
      [MaxStoreBytes |-> 0,  MaxIndexBytes |-> 30, InitialOffset |-> 1],
      [MaxStoreBytes |-> 10, MaxIndexBytes |-> 48, InitialOffset |-> 0],
      [MaxStoreBytes |-> 0,  MaxIndexBytes |-> 5,  InitialOffset |-> 0],
      [MaxStoreBytes |-> 0,  MaxIndexBytes |-> 5,  InitialOffset |-> 1] }

\* Configurations under which the directory of a closed Log is opened again
\* when the configuration is changed: those whose index holds an entry.
ReopenConfigs == { c \in Configs : c.MaxIndexBytes >= 12 }

\* The(S) is the element of a set S of one element.
The(S) == CHOOSE x \in S : TRUE

\* Let([x \in {v} |-> e]) is e with x standing for the value of v, computed
\* once: a local variable that holds the result of a call
\* (x, err := f(); ... x ... err ...)
Let(f) == The({ The({ g[x] : x \in DOMAIN g }) : g \in {f} })

\* ------------------------------------------------------------------- bytes
Min(a, b) == IF a < b THEN a ELSE b

SubSeqFrom(s, from, n) == [i \in 1..n |-> s[from + i]]

\* binary.BigEndian.PutUintNN: n in w bytes, most significant first
\* (all numbers of the model are below 2^24).
PutUint(n, w) ==
    [i \in 1..w |-> IF w - i >= 3 THEN 0 ELSE (n \div (256 ^ (w - i))) % 256]

\* a number of 2^24 or more stands for every such number: it is beyond every
\* size, position and offset of the model
Huge == 16777216

RECURSIVE Uint(_, _, _)
\* binary.BigEndian.UintNN of s[at+1 .. at+w]
Uint(s, at, w) ==
    IF w = 0 THEN 0
    ELSE Let([v \in {Uint(s, at, w - 1)} |->
             IF v >= Huge \div 256 THEN Huge ELSE v * 256 + s[at + w]])

\* overwrite s[at+1 .. at+Len(b)] with b (a write through the mmap)
Overwrite(s, at, b) ==
    [i \in 1..Len(s) |-> IF i > at /\ i <= at + Len(b) THEN b[i - at] ELSE s[i]]

\* ----------------------------------------------------- record (proto3 wire)
RECURSIVE Varint(_)
Varint(n) == IF n < 128 THEN <<n>> ELSE <<128 + (n % 128)>> \o Varint(n \div 128)

\* proto.Marshal of Record{value = 1 (bytes), offset = 2 (uint64)}: a field
\* holding its zero value is not written.
Marshal(value, offset) ==
    (IF Len(value) > 0 THEN <<10>> \o Varint(Len(value)) \o value ELSE <<>>)
    \o (IF offset # 0 THEN <<16>> \o Varint(offset) ELSE <<>>)

RECURSIVE ReadVarint(_, _)
\* [v, n]: the varint that starts at p[at+1], and the bytes it takes
ReadVarint(p, at) ==
    IF p[at + 1] < 128 THEN [v |-> p[at + 1], n |-> 1]
    ELSE Let([r \in {ReadVarint(p, at + 1)} |->
             [v |-> (p[at + 1] - 128) + 128 * r.v, n |-> r.n + 1]])

RECURSIVE UnmarshalFrom(_, _, _)
UnmarshalFrom(p, at, rec) ==
    IF at >= Len(p) THEN rec
    ELSE Let([l \in {ReadVarint(p, at + 1)} |->
         Let([nx \in {IF p[at + 1] = 10
                      THEN [at  |-> at + 1 + l.n + l.v,
                            rec |-> [rec EXCEPT !.Value =
                                        SubSeqFrom(p, at + 1 + l.n, l.v)]]
                      ELSE [at  |-> at + 1 + l.n,
                            rec |-> [rec EXCEPT !.Offset = l.v]]} |->
             UnmarshalFrom(p, nx.at, nx.rec)])])

\* proto.Unmarshal into a fresh Record
Unmarshal(p) == UnmarshalFrom(p, 0, [Value |-> <<>>, Offset |-> 0])

\* ------------------------------------------------------------------- files
\* The file system files is [dir, data]: dir is the directory l.Dir, a
\* function from file names <<baseOffset, ext>> to file numbers, and data is
\* the content of every file by number. An open *os.File is a file number: it
\* reads and writes the file whether or not a name still leads to it.
StoreName(baseOffset) == <<baseOffset, "store">>
IndexName(baseOffset) == <<baseOffset, "index">>

EmptyDir == [dir |-> [n \in {} |-> 0], data |-> <<>>]

\* the names in the directory
Names(files) == DOMAIN files.dir

\* the content of file number f becomes content
WriteFile(files, f, content) == [files EXCEPT !.data[f] = content]

\* os.Remove(name)
RemoveFile(files, name) ==
    [files EXCEPT !.dir = [n \in DOMAIN files.dir \ {name} |-> files.dir[n]]]

\* os.OpenFile(name, O_CREATE...): the file is created empty if it is not there
OpenFile(files, name) ==
    IF name \in Names(files) THEN files
    ELSE [dir  |-> [n \in DOMAIN files.dir \cup {name} |->
                       IF n = name THEN Len(files.data) + 1 ELSE files.dir[n]],
          data |-> Append(files.data, <<>>)]

\* (os.File).Truncate / os.Truncate: cut, or extend with zero bytes
Resize(content, n) == [i \in 1..n |-> IF i <= Len(content) THEN content[i] ELSE 0]

\* A state st of the program is [Config, heap, segments, activeSegment, files,
\* dirExists]: heap is the sequence of segment objects ever allocated by the
\* current Log (a *segment is an index into it), segments is l.segments,
\* activeSegment is l.activeSegment (0 is nil).
\* A segment object s is [baseOffset, nextOffset, config, storeFile,
\* storeSize, storeBuf, indexFile, indexSize, mmapLen, closed]: storeFile and
\* indexFile are store.File and index.file, storeSize/storeBuf are store.size
\* and the bytes held by the store's buffered writer, indexSize is
\* index.size, mmapLen is len(index.mmap).
SetSeg(st, id, s) == [st EXCEPT !.heap[id] = s]

\* the state after a segment operation that left the files as files and the
\* segment id as s
SetSegFiles(st, id, s, files) == [st EXCEPT !.heap[id] = s, !.files = files]

\* ------------------------------------------------------------------- store
\* newStore: size is the file's size at open
store_size_at_open(files, f) == Len(files.data[f])

\* the buffered writer's Flush: the file is opened O_APPEND
store_Flush(files, s) ==
    WriteFile(files, s.storeFile, files.data[s.storeFile] \o s.storeBuf)

\* store.Append(p) -> (n, pos): length prefix, then payload, through the buffer
store_Append(s, p) ==
    [s   |-> [s EXCEPT !.storeBuf = @ \o PutUint(Len(p), lenWidth) \o p,
                       !.storeSize = @ + lenWidth + Len(p)],
     n   |-> lenWidth + Len(p),
     pos |-> s.storeSize]

\* store.Read(pos): flush, read the length at pos, read that many bytes
store_Read(files, s, pos) ==
    IF s.closed
    THEN [files |-> files, s |-> s, p |-> <<>>, err |-> "ErrClosed"]
    ELSE Let([fl \in {store_Flush(files, s)} |->
             LET s2   == [s EXCEPT !.storeBuf = <<>>]
                 file == fl.data[s.storeFile]
                 L    == Uint(file, pos, lenWidth)
             IN  IF pos + lenWidth > Len(file)
                 THEN [files |-> fl, s |-> s2, p |-> <<>>, err |-> "EOF"]
                 ELSE IF pos + lenWidth + L > Len(file)
                 THEN [files |-> fl, s |-> s2, p |-> <<>>, err |-> "EOF"]
                 ELSE [files |-> fl, s |-> s2,
                       p |-> SubSeqFrom(file, pos + lenWidth, L), err |-> "nil"]])

\* store.ReadAt(buf, off) with len(buf) = n: flush, then the raw bytes from
\* off, as many as the file has (fewer than n at the end of the file)
store_ReadAt(files, s, n, off) ==
    IF s.closed
    THEN [files |-> files, s |-> s, p |-> <<>>, err |-> "ErrClosed"]
    ELSE Let([fl \in {store_Flush(files, s)} |->
             LET file == fl.data[s.storeFile]
                 k    == IF off >= Len(file) THEN 0 ELSE Min(n, Len(file) - off)
             IN  [files |-> fl, s |-> [s EXCEPT !.storeBuf = <<>>],
                  p |-> SubSeqFrom(file, off, k),
                  err |-> IF k < n THEN "EOF" ELSE "nil"]])

\* store.Close: flush, close the file
store_Close(files, s) ==
    [files |-> store_Flush(files, s),
     s     |-> [s EXCEPT !.storeBuf = <<>>, !.closed = TRUE]]

\* ------------------------------------------------------------------- index
\* index_isMaxed with a fault: an index with room for exactly one more entry
\* counts as full
index_isMaxed_OffByOne(s) == s.mmapLen <= s.indexSize + entWidth

\* index.isMaxed
index_isMaxed(s) == s.mmapLen < s.indexSize + entWidth

\* the mapped bytes of the index of s
Mmap(files, s) == files.data[s.indexFile]

\* index.Read(in) -> (out, pos, err); "panic" is a slice out of the mapping.
\* out is a uint32: a negative number wraps to 2^32 + out, which puts
\* pos + entWidth beyond any size of the model. "fault" is an access to
\* mapped bytes that lie beyond the end of the file (the file was cut through
\* another descriptor): SIGBUS when the page is past the end, unspecified
\* bytes otherwise; the program is not followed past it.
index_Read(files, s, in) ==
    IF s.indexSize = 0 THEN [out |-> 0, pos |-> 0, err |-> "EOF"]
    ELSE LET out == IF in = -1 THEN (s.indexSize \div entWidth) - 1 ELSE in
             pos == out * entWidth
         IN  IF out < 0 \/ s.indexSize < pos + entWidth
             THEN [out |-> 0, pos |-> 0, err |-> "EOF"]
             ELSE IF pos + entWidth > s.mmapLen
             THEN [out |-> 0, pos |-> 0, err |-> "panic"]
             ELSE IF pos + entWidth > Len(Mmap(files, s))
             THEN [out |-> 0, pos |-> 0, err |-> "fault"]
             ELSE [out |-> Uint(Mmap(files, s), pos, offWidth),
                   pos |-> Uint(Mmap(files, s), pos + offWidth, posWidth),
                   err |-> "nil"]

\* index.Write(off, pos)
index_Write(files, s, off, pos) ==
    IF index_isMaxed(s)
    THEN [files |-> files, s |-> s, err |-> "EOF"]
    ELSE IF s.indexSize + entWidth > Len(Mmap(files, s))
    THEN [files |-> files, s |-> s, err |-> "fault"]
    ELSE Let([ent \in {PutUint(off, offWidth) \o PutUint(pos, posWidth)} |->
             [files |-> WriteFile(files, s.indexFile,
                                  Overwrite(Mmap(files, s), s.indexSize, ent)),
              s     |-> [s EXCEPT !.indexSize = @ + entWidth],
              err   |-> "nil"]])

\* index_Close with a fault: the file is not truncated to size
index_Close_NoTruncate(files, s) ==
    IF s.closed THEN [files |-> files, err |-> "ErrClosed"]
    ELSE [files |-> files, err |-> "nil"]

\* index.Close: sync, truncate the file to size, close; syncing a file that
\* is already closed fails
index_Close(files, s) ==
    IF s.closed THEN [files |-> files, err |-> "ErrClosed"]
    ELSE [files |-> WriteFile(files, s.indexFile, Resize(Mmap(files, s), s.indexSize)),
          err   |-> "nil"]

\* ----------------------------------------------------------------- segment
\* newSegment, newStore and newIndex up to the mapping: the segment object
\* over the store file and the index file as they are in files; index.size
\* is the size of the index file
OpenedSegment(files, baseOffset, c) ==
    [baseOffset |-> baseOffset, nextOffset |-> baseOffset, config |-> c,
     storeFile |-> files.dir[StoreName(baseOffset)],
     storeSize |-> store_size_at_open(files, files.dir[StoreName(baseOffset)]),
     storeBuf  |-> <<>>,
     indexFile |-> files.dir[IndexName(baseOffset)],
     indexSize |-> Len(files.data[files.dir[IndexName(baseOffset)]]),
     mmapLen   |-> c.MaxIndexBytes,
     closed    |-> FALSE]

\* func newSegment(dir, baseOffset, c): open (or create) the two files, then
\* set nextOffset from the last index entry. newIndex takes size from stat,
\* then sizes the file to MaxIndexBytes and maps it whole.
newSegment(files, dirExists, baseOffset, c) ==
    IF ~dirExists   \* os.OpenFile in a directory that is gone
    THEN [files |-> files, s |-> <<>>, err |-> "ENOENT"]
    ELSE Let([f2 \in {OpenFile(OpenFile(files, StoreName(baseOffset)),
                               IndexName(baseOffset))} |->
         Let([s0 \in {OpenedSegment(f2, baseOffset, c)} |->
         Let([f3 \in {WriteFile(f2, s0.indexFile,
                                Resize(f2.data[s0.indexFile], c.MaxIndexBytes))} |->
         Let([r \in {index_Read(f3, s0, -1)} |->
             [files |-> f3,
              s     |-> IF r.err # "nil" THEN s0
                        ELSE [s0 EXCEPT !.nextOffset = baseOffset + r.out + 1],
              err   |-> IF r.err = "panic" THEN "panic" ELSE "nil"]])])])])

\* segment_AppendAt with a fault: a record that cannot be marshalled still
\* takes its offset
segment_AppendAt_TakesOffset(st, id, value, cur) ==
    LET s == st.heap[id]
    IN  IF value = Unserializable
        THEN [st  |-> SetSeg(st, id, [s EXCEPT !.nextOffset = @ + 1]),
              off |-> 0, err |-> "marshal"]
        ELSE
        Let([a \in {store_Append(s, Marshal(value, cur))} |->
        Let([w \in {index_Write(st.files, a.s, s.nextOffset - s.baseOffset, a.pos)} |->
            IF w.err # "nil"
            THEN [st |-> SetSeg(st, id, a.s), off |-> 0, err |-> w.err]
            ELSE [st  |-> SetSegFiles(st, id, [w.s EXCEPT !.nextOffset = @ + 1],
                                      w.files),
                  off |-> cur, err |-> "nil"]])])

\* segment.Append from after cur := s.nextOffset: the record is stamped with
\* cur, marshalled (an error of proto.Marshal is returned at once), appended
\* to the store, its position written to the index
\* under nextOffset - baseOffset, and nextOffset incremented
segment_AppendAt(st, id, value, cur) ==
    LET s == st.heap[id]
    IN  IF value = Unserializable
        THEN [st |-> st, off |-> 0, err |-> "marshal"]
        ELSE
        Let([a \in {store_Append(s, Marshal(value, cur))} |->
        Let([w \in {index_Write(st.files, a.s, s.nextOffset - s.baseOffset, a.pos)} |->
            IF w.err # "nil"
            THEN [st |-> SetSeg(st, id, a.s), off |-> 0, err |-> w.err]
            ELSE [st  |-> SetSegFiles(st, id, [w.s EXCEPT !.nextOffset = @ + 1],
                                      w.files),
                  off |-> cur, err |-> "nil"]])])

\* segment.Append
segment_Append(st, id, value) ==
    segment_AppendAt(st, id, value, st.heap[id].nextOffset)

\* a *api.Record result: <<>> is nil, <<r>> points at record r
NoRecord == <<>>

\* segment_Read with a fault: the index is asked for the absolute offset
segment_Read_Absolute(st, id, off) ==
    LET s == st.heap[id]
    IN  Let([i \in {index_Read(st.files, s, off)} |->
            IF i.err # "nil" THEN [st |-> st, rec |-> NoRecord, err |-> i.err]
            ELSE Let([r \in {store_Read(st.files, s, i.pos)} |->
                     [st  |-> SetSegFiles(st, id, r.s, r.files),
                      rec |-> IF r.err # "nil" THEN NoRecord
                              ELSE <<Unmarshal(r.p)>>,
                      err |-> r.err]])])

\* segment.Read(off): the position from the index entry off - baseOffset,
\* the bytes from the store at that position, unmarshalled
segment_Read(st, id, off) ==
    LET s == st.heap[id]
    IN  Let([i \in {index_Read(st.files, s, off - s.baseOffset)} |->
            IF i.err # "nil" THEN [st |-> st, rec |-> NoRecord, err |-> i.err]
            ELSE Let([r \in {store_Read(st.files, s, i.pos)} |->
                     [st  |-> SetSegFiles(st, id, r.s, r.files),
                      rec |-> IF r.err # "nil" THEN NoRecord
                              ELSE <<Unmarshal(r.p)>>,
                      err |-> r.err]])])

\* segment.IsMaxed
segment_IsMaxed(s) ==
    \/ s.storeSize >= s.config.MaxStoreBytes
    \/ s.indexSize >= s.config.MaxIndexBytes
    \/ index_isMaxed(s)

\* segment.Close: the index, then the store
segment_Close(files, s) ==
    Let([ic \in {index_Close(files, s)} |->
        IF ic.err # "nil" THEN [files |-> files, s |-> s, err |-> ic.err]
        ELSE Let([sc \in {store_Close(ic.files, s)} |->
                 [files |-> sc.files, s |-> sc.s, err |-> "nil"]])])

\* segment.Remove: Close, then os.Remove of the index file, then of the store
\* file; removing a name that is not in the directory fails
segment_Remove(files, s) ==
    Let([c \in {segment_Close(files, s)} |->
        IF c.err # "nil" THEN c
        ELSE IF IndexName(s.baseOffset) \notin Names(c.files)
        THEN [files |-> c.files, s |-> c.s, err |-> "ENOENT"]
        ELSE Let([f1 \in {RemoveFile(c.files, IndexName(s.baseOffset))} |->
                 IF StoreName(s.baseOffset) \notin Names(f1)
                 THEN [files |-> f1, s |-> c.s, err |-> "ENOENT"]
                 ELSE [files |-> RemoveFile(f1, StoreName(s.baseOffset)),
                       s |-> c.s, err |-> "nil"]])])

\* --------------------------------------------------------------------- Log
\* (l *Log) newSegment(off): the new segment is appended to l.segments and
\* becomes the active segment
Log_newSegment(st, off) ==
    Let([r \in {newSegment(st.files, st.dirExists, off, st.Config)} |->
        IF r.err # "nil" THEN [st |-> [st EXCEPT !.files = r.files], err |-> r.err]
        ELSE [st  |-> [st EXCEPT !.files = r.files,
                                 !.heap = Append(@, r.s),
                                 !.segments = Append(@, Len(st.heap) + 1),
                                 !.activeSegment = Len(st.heap) + 1],
              err |-> "nil"]])

RECURSIVE SortedStems(_)
\* the stems of the directory's file names, parsed as numbers and sorted:
\* one element per file
SortedStems(names) ==
    IF names = {} THEN <<>>
    ELSE Let([n \in {CHOOSE x \in names : \A y \in names : x[1] <= y[1]} |->
         Let([rest \in {names \ {n}} |-> <<n[1]>> \o SortedStems(rest)])])

RECURSIVE setupLoop(_, _, _)
\* for i := 0; i < len(baseOffsets); i++ { newSegment(baseOffsets[i]); i++ }
\* (i counts from 1 here)
setupLoop(st, baseOffsets, i) ==
    IF i > Len(baseOffsets) THEN [st |-> st, err |-> "nil"]
    ELSE Let([r \in {Log_newSegment(st, baseOffsets[i])} |->
             IF r.err # "nil" THEN r ELSE setupLoop(r.st, baseOffsets, i + 2)])

\* Log.setup
setup(st) ==
    IF ~st.dirExists THEN [st |-> st, err |-> "ENOENT"]
    ELSE Let([baseOffsets \in {SortedStems(Names(st.files))} |->
         Let([r \in {setupLoop(st, baseOffsets, 1)} |->
             IF r.err # "nil" THEN r
             ELSE IF r.st.segments = <<>>
             THEN Log_newSegment(r.st, st.Config.InitialOffset)
             ELSE r])])

\* NewLog(dir, c) up to l.setup(): defaults for the limits left at 0, and a
\* Log with no segments
EmptyLog(files, dirExists, c) ==
    [Config |-> [c EXCEPT !.MaxStoreBytes = IF @ = 0 THEN DefaultMaxStoreBytes ELSE @,
                          !.MaxIndexBytes = IF @ = 0 THEN DefaultMaxIndexBytes ELSE @],
     heap |-> <<>>, segments |-> <<>>, activeSegment |-> 0,
     files |-> files, dirExists |-> dirExists]

\* NewLog(dir, c)
NewLog(files, dirExists, c) ==
    Let([l \in {EmptyLog(files, dirExists, c)} |-> setup(l)])

\* highestOffset with a fault: nextOffset is returned as it is
highestOffset_NoMinus(st) ==
    IF st.segments = <<>> THEN [off |-> 0, err |-> "panic"]
    ELSE [off |-> st.heap[st.segments[Len(st.segments)]].nextOffset, err |-> "nil"]

\* Log.highestOffset; indexing an empty l.segments panics
highestOffset(st) ==
    IF st.segments = <<>> THEN [off |-> 0, err |-> "panic"]
    ELSE LET off == st.heap[st.segments[Len(st.segments)]].nextOffset
         IN  [off |-> IF off = 0 THEN 0 ELSE off - 1, err |-> "nil"]

\* Log.LowestOffset
LowestOffset(st) ==
    IF st.segments = <<>> THEN [off |-> 0, err |-> "panic"]
    ELSE [off |-> st.heap[st.segments[1]].baseOffset, err |-> "nil"]

\* TruncateRemoves with a fault: the watermark is compared without the + 1
TruncateRemoves_OffByOne(s, lowest) == s.nextOffset <= lowest

\* the test of Log.Truncate: the segment holds no offset above lowest
TruncateRemoves(s, lowest) == s.nextOffset <= lowest + 1

RECURSIVE TruncateLoop(_, _, _, _)
\* the loop of Log.Truncate over l.segments; kept is the local slice segments
TruncateLoop(st, lowest, i, kept) ==
    IF i > Len(st.segments) THEN [st |-> [st EXCEPT !.segments = kept], err |-> "nil"]
    ELSE LET id == st.segments[i]
             s  == st.heap[id]
         IN  IF TruncateRemoves(s, lowest)
             THEN Let([r \in {segment_Remove(st.files, s)} |->
                  Let([st2 \in {SetSegFiles(st, id, r.s, r.files)} |->
                      IF r.err # "nil" THEN [st |-> st2, err |-> r.err]
                      ELSE TruncateLoop(st2, lowest, i + 1, kept)])])
             ELSE Let([kept2 \in {Append(kept, id)} |->
                      TruncateLoop(st, lowest, i + 1, kept2)])

\* Log.Truncate(lowest)
Log_Truncate(st, lowest) == TruncateLoop(st, lowest, 1, <<>>)

\* Log.Append up to the call of l.activeSegment.Append: highestOffset, then a
\* new active segment if the active one is maxed
Log_AppendRoll(st) ==
    Let([h \in {highestOffset(st)} |->
        IF h.err # "nil" THEN [st |-> st, err |-> h.err]
        ELSE IF segment_IsMaxed(st.heap[st.activeSegment])
        THEN Log_newSegment(st, h.off + 1)
        ELSE [st |-> st, err |-> "nil"]])

\* Log_Append with a fault: the record goes to the first segment of the Log
Log_Append_ToFirst(st, value) ==
    Let([roll \in {Log_AppendRoll(st)} |->
        IF roll.err # "nil" THEN [st |-> roll.st, off |-> 0, err |-> roll.err]
        ELSE segment_Append(roll.st, roll.st.segments[1], value)])

\* Log.Append(record)
Log_Append(st, value) ==
    Let([roll \in {Log_AppendRoll(st)} |->
        IF roll.err # "nil" THEN [st |-> roll.st, off |-> 0, err |-> roll.err]
        ELSE segment_Append(roll.st, roll.st.activeSegment, value)])

\* FindSegment with a fault: nextOffset itself is taken as covered
FindSegment_Inclusive(st, off) ==
    LET hits == { i \in 1..Len(st.segments) :
                     /\ st.heap[st.segments[i]].baseOffset <= off
                     /\ off <= st.heap[st.segments[i]].nextOffset }
    IN  IF hits = {} THEN 0
        ELSE st.segments[CHOOSE i \in hits : \A j \in hits : i <= j]

\* the first segment of l.segments with baseOffset <= off < nextOffset, 0 if none
FindSegment(st, off) ==
    LET hits == { i \in 1..Len(st.segments) :
                     /\ st.heap[st.segments[i]].baseOffset <= off
                     /\ off < st.heap[st.segments[i]].nextOffset }
    IN  IF hits = {} THEN 0
        ELSE st.segments[CHOOSE i \in hits : \A j \in hits : i <= j]

\* Log.Read(off); errOffset is ErrOffsetOutOfRange.Offset
Log_Read(st, off) ==
    Let([id \in {FindSegment(st, off)} |->
        IF id = 0
        THEN [st |-> st, rec |-> NoRecord, err |-> "ErrOffsetOutOfRange",
              errOffset |-> off]
        ELSE Let([r \in {segment_Read(st, id, off)} |->
                 [st |-> r.st, rec |-> r.rec, err |-> r.err, errOffset |-> 0]])])

RECURSIVE CloseLoop(_, _)
\* the loop of Log.Close over l.segments
CloseLoop(st, i) ==
    IF i > Len(st.segments) THEN [st |-> st, err |-> "nil"]
    ELSE Let([r \in {segment_Close(st.files, st.heap[st.segments[i]])} |->
             IF r.err # "nil" THEN [st |-> st, err |-> r.err]
             ELSE Let([st2 \in {SetSegFiles(st, st.segments[i], r.s, r.files)} |->
                      CloseLoop(st2, i + 1)])])

\* Log.Close
Log_Close(st) == CloseLoop(st, 1)

\* os.RemoveAll(l.Dir): the directory goes with the names of its files
RemoveAll(st) == [st EXCEPT !.files.dir = EmptyDir.dir, !.dirExists = FALSE]

\* Log.Remove
Log_Remove(st) ==
    Let([c \in {Log_Close(st)} |->
        IF c.err # "nil" THEN c ELSE [st |-> RemoveAll(c.st), err |-> "nil"]])

\* Log.Reset
Log_Reset(st) ==
    Let([r \in {Log_Remove(st)} |->
        IF r.err # "nil" THEN r ELSE setup(r.st)])

\* Log_Reader with a fault: the readers start after the first length prefix
Log_Reader_SkipPrefix(st) ==
    [i \in 1..Len(st.segments) |-> [id |-> st.segments[i], off |-> lenWidth]]

\* Log.Reader: one originalReader{store, 0} per segment of l.segments
Log_Reader(st) == [i \in 1..Len(st.segments) |-> [id |-> st.segments[i], off |-> 0]]

\* originalReader.Read(p) with len(p) = n: ReadAt at o.off, then o.off += n read
originalReader_Read(st, o, n) ==
    Let([r \in {store_ReadAt(st.files, st.heap[o.id], n, o.off)} |->
        [st  |-> SetSegFiles(st, o.id, r.s, r.files),
         o   |-> [o EXCEPT !.off = @ + Len(r.p)],
         p   |-> r.p,
         err |-> r.err]])

RECURSIVE ReadAll(_, _, _, _)
\* io.ReadAll of io.MultiReader(readers...) through a buffer of n bytes: each
\* reader is read until it reports EOF, then the next one; any other error
\* ends the read
ReadAll(st, readers, n, out) ==
    IF readers = <<>> THEN [st |-> st, bytes |-> out, err |-> "nil"]
    ELSE Let([r \in {originalReader_Read(st, Head(readers), n)} |->
         Let([nx \in {[out  |-> out \o r.p,
              rest |-> IF r.err = "EOF" THEN Tail(readers)
                       ELSE <<r.o>> \o Tail(readers)]} |->
             IF r.err # "nil" /\ r.err # "EOF"
             THEN [st |-> r.st, bytes |-> nx.out, err |-> r.err]
             ELSE ReadAll(r.st, nx.rest, n, nx.out)])])

\* ------------------------------------------------------------------- state
VARIABLES
    Config,         \* l.Config, after NewLog's defaulting
    heap,           \* the segment objects of the current Log
    segments,       \* l.segments
    activeSegment,  \* l.activeSegment
    files,          \* the file system: l.Dir and the files' contents
    dirExists,      \* whether l.Dir exists
    phase,          \* "open", "closed" (after Close), "removed" (after Remove/Reset),
                    \* "crashed" (NewLog panicked)
    last,           \* the last call and what it returned
    pre,            \* the program state in which the last call was made
    appended,       \* [off, value] of every successful Append, in order
    returned,       \* the offsets the current Log's successful Appends returned
    createdEmpty,   \* the current Log was created over an empty directory
    snap,           \* what the Log answered just before its last successful Close
    nAppends,       \* Append calls so far
    reopened,       \* a second Log was created over the directory
    mu,             \* l.mu: [w: a writer holds it, r: number of readers holding it]
    th,             \* per thread: the call it is in and how far it has got
    assigned,       \* the offsets given out by Append bodies, in lock order
    rets,           \* [off, floor] of the successful Appends, in the order they returned
    nCalls          \* calls started by the threads

progVars == <<Config, heap, segments, activeSegment, files, dirExists>>
ghostVars == <<phase, last, pre, appended, returned, createdEmpty, snap,
               nAppends, reopened>>
concVars == <<mu, th, assigned, rets, nCalls>>
vars == <<progVars, ghostVars, concVars>>

\* the threads of the concurrent specification
Threads == {"t1", "t2"}

Idle == [pc |-> "idle", op |-> "none", arg |-> 0, seg |-> 0, off |-> 0, err |-> "nil",
         floor |-> -1, readers |-> <<>>, bytes |-> <<>>, k0 |-> 0]

State == [Config |-> Config, heap |-> heap, segments |-> segments,
          activeSegment |-> activeSegment, files |-> files, dirExists |-> dirExists]

SetState(st) ==
    /\ Config' = st.Config
    /\ heap' = st.heap
    /\ segments' = st.segments
    /\ activeSegment' = st.activeSegment
    /\ files' = st.files
    /\ dirExists' = st.dirExists

Result(op, arg, err, off, rec, errOffset, bytes) ==
    [op |-> op, arg |-> arg, err |-> err, off |-> off, rec |-> rec,
     errOffset |-> errOffset, bytes |-> bytes]

\* what a caller sees of Read(off)
ReadResult(st, off) ==
    Let([r \in {Log_Read(st, off)} |->
        [rec |-> r.rec, err |-> r.err, errOffset |-> r.errOffset]])

\* what a caller sees of the Log: LowestOffset, highestOffset, every Read
Observe(st) ==
    [lowest  |-> LowestOffset(st),
     highest |-> highestOffset(st),
     reads   |-> [o \in 0..MaxOff |-> ReadResult(st, o)]]

NoSnap == [lowest |-> [off |-> 0, err |-> "none"], highest |-> [off |-> 0, err |-> "none"],
           reads |-> [o \in 0..MaxOff |-> [rec |-> NoRecord, err |-> "none", errOffset |-> 0]]]

Init ==
    \E c \in Configs :
        \E r \in { NewLog(EmptyDir, TRUE, c) } :
            /\ Config = r.st.Config
            /\ heap = r.st.heap
            /\ segments = r.st.segments
            /\ activeSegment = r.st.activeSegment
            /\ files = r.st.files
            /\ dirExists = r.st.dirExists
            /\ phase = "open"
            /\ last = Result("NewLog", 0, r.err, 0, NoRecord, 0, <<>>)
            /\ pre = r.st
            /\ appended = <<>>
            /\ returned = <<>>
            /\ createdEmpty = TRUE
            /\ snap = NoSnap
            /\ nAppends = 0
            /\ reopened = FALSE
            /\ mu = [w |-> FALSE, r |-> 0]
            /\ th = [t \in Threads |-> Idle]
            /\ assigned = <<>>
            /\ rets = <<>>
            /\ nCalls = 0

\* the phase after a call that returned err: a fault ends the program
AfterCall(err) == IF err = "fault" THEN "crashed" ELSE phase

\* a caller appends a record holding value
DoAppend(value) ==
    /\ phase = "open"
    /\ nAppends < MaxAppends
    /\ \E r \in { Log_Append(State, value) } :
           /\ SetState(r.st)
           /\ last' = Result("Append", value, r.err, r.off, NoRecord, 0, <<>>)
           /\ appended' = IF r.err = "nil"
                          THEN Append(appended, [off |-> r.off, value |-> value])
                          ELSE appended
           /\ returned' = IF r.err = "nil" THEN Append(returned, r.off) ELSE returned
           /\ phase' = AfterCall(r.err)
    /\ pre' = State
    /\ UNCHANGED concVars
    /\ nAppends' = nAppends + 1
    /\ UNCHANGED <<createdEmpty, snap, reopened>>

\* a caller reads offset off
DoRead(off) ==
    /\ phase = "open"
    /\ \E r \in { Log_Read(State, off) } :
           /\ SetState(r.st)
           /\ last' = Result("Read", off, r.err, 0, r.rec, r.errOffset, <<>>)
           /\ phase' = AfterCall(r.err)
    /\ pre' = State
    /\ UNCHANGED concVars
    /\ UNCHANGED <<appended, returned, createdEmpty, snap, nAppends, reopened>>

\* a caller truncates up to the watermark lowest
DoTruncate(lowest) ==
    /\ phase = "open"
    /\ \E r \in { Log_Truncate(State, lowest) } :
           /\ SetState(r.st)
           /\ last' = Result("Truncate", lowest, r.err, 0, NoRecord, 0, <<>>)
    /\ pre' = State
    /\ UNCHANGED concVars
    /\ UNCHANGED <<phase, appended, returned, createdEmpty, snap, nAppends, reopened>>

\* a caller takes the Reader and reads it to its end
DoReader ==
    /\ phase = "open"
    /\ \E r \in { ReadAll(State, Log_Reader(State), ReadBufLen, <<>>) } :
           /\ SetState(r.st)
           /\ last' = Result("Reader", 0, r.err, 0, NoRecord, 0, r.bytes)
    /\ pre' = State
    /\ UNCHANGED concVars
    /\ UNCHANGED <<phase, appended, returned, createdEmpty, snap,
                   nAppends, reopened>>

\* a caller closes the Log
DoClose ==
    /\ phase = "open"
    /\ \E r \in { Log_Close(State) } :
           /\ SetState(r.st)
           /\ last' = Result("Close", 0, r.err, 0, NoRecord, 0, <<>>)
           /\ snap' = IF r.err = "nil" THEN Observe(State) ELSE snap
    /\ phase' = "closed"
    /\ pre' = State
    /\ UNCHANGED concVars
    /\ UNCHANGED <<appended, returned, createdEmpty, nAppends, reopened>>

\* after a successful Close, NewLog(l.Dir, l.Config) makes a new Log over the
\* same directory
DoReopen ==
    /\ phase = "closed"
    /\ last.err = "nil"
    /\ ~reopened
    /\ \E r \in { NewLog(files, dirExists, Config) } :
           /\ SetState(r.st)
           /\ last' = Result("NewLog", 0, r.err, 0, NoRecord, 0, <<>>)
    /\ phase' = "open"
    /\ pre' = State
    /\ UNCHANGED concVars
    /\ returned' = <<>>
    /\ createdEmpty' = (Names(files) = {})
    /\ reopened' = TRUE
    /\ UNCHANGED <<appended, snap, nAppends>>

\* after a successful Close, NewLog(l.Dir, c) makes a new Log over the same
\* directory with another configuration; a panic inside NewLog ends the program
DoReopenWith(c) ==
    /\ phase = "closed"
    /\ last.err = "nil"
    /\ ~reopened
    /\ EmptyLog(files, dirExists, c).Config # Config
    /\ \E r \in { NewLog(files, dirExists, c) } :
           /\ SetState(r.st)
           /\ last' = Result("NewLogWith", c, r.err, 0, NoRecord, 0, <<>>)
           /\ phase' = IF r.err = "nil" THEN "open" ELSE "crashed"
    /\ pre' = State
    /\ UNCHANGED concVars
    /\ returned' = <<>>
    /\ createdEmpty' = (Names(files) = {})
    /\ reopened' = TRUE
    /\ UNCHANGED <<appended, snap, nAppends>>

\* a caller removes the Log
DoRemove ==
    /\ phase = "open"
    /\ \E r \in { Log_Remove(State) } :
           /\ SetState(r.st)
           /\ last' = Result("Remove", 0, r.err, 0, NoRecord, 0, <<>>)
    /\ phase' = "removed"
    /\ pre' = State
    /\ UNCHANGED concVars
    /\ UNCHANGED <<appended, returned, createdEmpty, snap, nAppends, reopened>>

\* a caller resets the Log
DoReset ==
    /\ phase = "open"
    /\ \E r \in { Log_Reset(State) } :
           /\ SetState(r.st)
           /\ last' = Result("Reset", 0, r.err, 0, NoRecord, 0, <<>>)
           /\ phase' = IF r.err = "nil" THEN "open" ELSE "removed"
    /\ pre' = State
    /\ UNCHANGED concVars
    /\ UNCHANGED <<appended, returned, createdEmpty, snap, nAppends, reopened>>

Next ==
    \/ \E value \in Values : DoAppend(value)
    \/ \E off \in 0..MaxOff : DoRead(off)
    \/ \E lowest \in 0..MaxOff : DoTruncate(lowest)
    \/ DoReader
    \/ DoClose
    \/ DoReopen
    \/ \E c \in ReopenConfigs : DoReopenWith(c)
    \/ DoRemove
    \/ DoReset

Spec == Init /\ [][Next]_vars

\* ------------------------------------------------------------------ claims
\* the segments of l.segments, as objects
Segs(st) == [i \in 1..Len(st.segments) |-> st.heap[st.segments[i]]]

\* some segment of the Log holds offset off
Covered(st, off) ==
    \E i \in 1..Len(st.segments) :
        Segs(st)[i].baseOffset <= off /\ off < Segs(st)[i].nextOffset

\* a store entry: the length of p in lenWidth bytes, then p
Frame(p) == PutUint(Len(p), lenWidth) \o p

RECURSIVE Concat(_)
Concat(ss) == IF ss = <<>> THEN <<>> ELSE Head(ss) \o Concat(Tail(ss))

\* C1: the offsets returned by the successful Appends of one Log go up by
\* exactly 1, rollovers included, and the first one is InitialOffset when the
\* Log was created over an empty directory.
C1_MonotonicOffsets ==
    /\ \A i \in 1..(Len(returned) - 1) : returned[i + 1] = returned[i] + 1
    /\ (createdEmpty /\ returned # <<>>) => returned[1] = Config.InitialOffset

\* C1 witness: a second Append succeeded after rolling over to a new segment.
C1_Witness ==
    /\ last.op = "Append" /\ last.err = "nil"
    /\ createdEmpty /\ Len(returned) = 2
    /\ Len(segments) = Len(pre.segments) + 1

\* C2: a record appended at offset k is read back by Read(k), payload and
\* offset, right after the Append and at any later time at which the log is
\* open and still holds it (k is covered and was not handed out again after
\* a truncation of the whole log), whichever segment k is in.
C2_ReadAfterWrite ==
    /\ (last.op = "Append" /\ last.err = "nil") => Covered(State, last.off)
    /\ phase = "open" =>
         \A i \in 1..Len(appended) :
             (/\ Covered(State, appended[i].off)
              /\ \A j \in (i + 1)..Len(appended) : appended[j].off # appended[i].off) =>
                 LET r == Log_Read(State, appended[i].off)
                 IN  /\ r.err = "nil"
                     /\ r.rec = <<[Value |-> appended[i].value,
                                   Offset |-> appended[i].off]>>

\* C2 witness: a Read returned the record of the second segment.
C2_Witness ==
    /\ last.op = "Read" /\ last.err = "nil"
    /\ Len(segments) = 2 /\ Len(appended) = 2
    /\ last.arg = appended[2].off
    /\ last.arg = Segs(State)[2].baseOffset
    /\ last.rec = <<[Value |-> <<7, 8, 9>>, Offset |-> last.arg]>>

\* C3: Read of an offset that no segment covers returns no record and
\* ErrOffsetOutOfRange carrying that offset.
C3_OutOfRange ==
    /\ \A off \in 0..MaxOff :
          ~Covered(State, off) =>
              LET r == Log_Read(State, off)
              IN  r.rec = NoRecord /\ r.err = "ErrOffsetOutOfRange" /\ r.errOffset = off
    /\ (last.op = "Read" /\ ~Covered(pre, last.arg)) =>
          /\ last.rec = NoRecord
          /\ last.err = "ErrOffsetOutOfRange"
          /\ last.errOffset = last.arg

\* C3 witness: Read(highest offset + 1) on a log that holds records failed.
C3_Witness ==
    /\ last.op = "Read" /\ last.err = "ErrOffsetOutOfRange"
    /\ appended # <<>>
    /\ last.arg = appended[Len(appended)].off + 1
    /\ Covered(State, last.arg - 1)

\* C4: a Log created over the directory of a Log that was closed (and that
\* held at least one segment when it was closed) answers LowestOffset,
\* highestOffset and every Read as the closed Log did.
C4_Persistence ==
    (last.op = "NewLog" /\ reopened /\ last.err = "nil" /\ snap.lowest.err = "nil")
        => Observe(State) = snap

\* C4 witness: a Log was reopened over two segments holding records.
C4_Witness ==
    /\ last.op = "NewLog" /\ reopened /\ last.err = "nil"
    /\ Len(segments) = 2 /\ Len(appended) = 2
    /\ snap.highest.off = appended[2].off

\* C5: an Append on a Log whose active segment is maxed succeeds, adds exactly
\* one segment whose baseOffset is the nextOffset of the segment that was
\* active, and stores the record in it.
C5_Rollover ==
    (last.op = "Append" /\ pre.activeSegment # 0
       /\ segment_IsMaxed(pre.heap[pre.activeSegment])) =>
        /\ last.err = "nil"
        /\ Len(segments) = Len(pre.segments) + 1
        /\ heap[activeSegment].baseOffset = pre.heap[pre.activeSegment].nextOffset
        /\ segments[Len(segments)] = activeSegment
        /\ last.off = heap[activeSegment].baseOffset
        /\ heap[activeSegment].nextOffset = last.off + 1
        /\ files.dir[StoreName(last.off)] = heap[activeSegment].storeFile
        /\ files.data[heap[activeSegment].storeFile] \o heap[activeSegment].storeBuf
             = Frame(Marshal(last.arg, last.off))

StoreSeen(st, i) ==
    st.files.data[Segs(st)[i].storeFile]
    \o Concat([j \in 1..i |->
                  IF Segs(st)[j].storeFile = Segs(st)[i].storeFile
                  THEN Segs(st)[j].storeBuf ELSE <<>>])

RECURSIVE FramedRecords(_, _)
\* the store entries of the records the log st holds, from the i-th Append on
FramedRecords(st, i) ==
    IF i > Len(appended) THEN <<>>
    ELSE (IF /\ Covered(st, appended[i].off)
             /\ \A j \in (i + 1)..Len(appended) : appended[j].off # appended[i].off
          THEN Frame(Marshal(appended[i].value, appended[i].off))
          ELSE <<>>)
         \o FramedRecords(st, i + 1)

\* C7: the Reader, read to its end, yields the store contents of the segments
\* in the order of l.segments (ascending base offset), each from byte 0; when
\* no Append failed that is every record the log holds, in offset order, as
\* an 8-byte length and the marshalled record.
C7_Reader ==
    (last.op = "Reader" /\ last.err = "nil") =>
        /\ last.bytes = Concat([i \in 1..Len(pre.segments) |-> StoreSeen(pre, i)])
        /\ \A i \in 1..(Len(pre.segments) - 1) :
              Segs(pre)[i].baseOffset <= Segs(pre)[i + 1].baseOffset
        /\ nAppends = Len(appended) => last.bytes = FramedRecords(pre, 1)

\* C7 witness: the Reader was read over two segments that hold records, more
\* bytes than one buffer takes.
C7_Witness ==
    /\ last.op = "Reader" /\ last.err = "nil"
    /\ Len(pre.segments) = 2 /\ Len(appended) = 2
    /\ \A i \in 1..2 : Segs(pre)[i].nextOffset = Segs(pre)[i].baseOffset + 1
    /\ Len(last.bytes) > ReadBufLen

\* C10: Reset leaves a usable empty Log: it succeeds, the Log holds one open,
\* empty segment at InitialOffset, no earlier offset is readable and the next
\* Append returns InitialOffset.
C10_Reset ==
    last.op = "Reset" =>
        /\ last.err = "nil"
        /\ Len(segments) = 1
        /\ activeSegment = segments[1]
        /\ ~heap[activeSegment].closed
        /\ heap[activeSegment].baseOffset = Config.InitialOffset
        /\ heap[activeSegment].nextOffset = Config.InitialOffset
        /\ heap[activeSegment].storeSize = 0
        /\ heap[activeSegment].indexSize = 0
        /\ \A off \in 0..MaxOff : Log_Read(State, off).err = "ErrOffsetOutOfRange"
        /\ \A value \in Values :
              LET a == Log_Append(State, value)
              IN  a.err = "nil" /\ a.off = Config.InitialOffset

\* C11: no Append returns io.EOF: a full active segment is replaced by a new
\* one before the record is written, whatever configuration NewLog was given.
C11_NoEOF == last.op = "Append" => last.err # "EOF"

\* C13: the segments of the Log are in ascending order of baseOffset and each
\* segment starts where the one before it ends.
C13_Contiguous ==
    phase = "open" =>
        \A i \in 1..(Len(segments) - 1) :
            /\ Segs(State)[i].baseOffset <= Segs(State)[i + 1].baseOffset
            /\ Segs(State)[i].nextOffset = Segs(State)[i + 1].baseOffset

\* C14: the open Log always holds a segment and l.activeSegment is the last
\* element of l.segments, after any Append, Truncate and setup.
C14_ActiveIsLast ==
    phase = "open" =>
        /\ segments # <<>>
        /\ activeSegment = segments[Len(segments)]

\* C15: an Append, rolling over or not, changes nothing of the segments that
\* were in the Log other than the one that is active when the record is
\* written: their fields, store and index contents stay as they were, and
\* the segment written to is the last of l.segments.
C15_OnlyActiveMutated ==
    last.op = "Append" =>
        /\ \A i \in 1..Len(pre.segments) :
              LET id == pre.segments[i]
              IN  id # activeSegment =>
                    /\ heap[id] = pre.heap[id]
                    /\ files.data[heap[id].storeFile]
                         = pre.files.data[pre.heap[id].storeFile]
                    /\ files.data[heap[id].indexFile]
                         = pre.files.data[pre.heap[id].indexFile]
        /\ segments = pre.segments \/ segments = Append(pre.segments, activeSegment)
        /\ last.err = "nil" =>
              /\ activeSegment = segments[Len(segments)]
              /\ heap[activeSegment].nextOffset = last.off + 1

\* C15 witness: an Append rolled over from a segment that holds a record
\* with a payload, and wrote its own record to the new segment.
C15_Witness ==
    /\ last.op = "Append" /\ last.err = "nil"
    /\ Len(pre.segments) = 1 /\ Len(segments) = 2
    /\ Len(files.data[Segs(State)[1].storeFile]) > lenWidth + 2
    /\ heap[activeSegment].storeSize > 0

\* the number of whole entries in the index of segment s
Entries(s) == s.indexSize \div entWidth

\* the open segment objects of the current Log
OpenSegments == { i \in 1..Len(heap) : ~heap[i].closed }

\* C16: every open segment has nextOffset = baseOffset + the number of
\* entries in its index, after creation, after every Append and after
\* reopening its files.
C16_NextOffset ==
    \A i \in OpenSegments :
        heap[i].nextOffset = heap[i].baseOffset + Entries(heap[i])

\* C17: the size of every open index is a multiple of 12 and is 12 times the
\* number of entries written to it, entry k holding relative offset k.
C17_IndexDense ==
    \A i \in OpenSegments :
        /\ heap[i].indexSize % entWidth = 0
        /\ heap[i].indexSize = entWidth * (heap[i].nextOffset - heap[i].baseOffset)
        /\ \A k \in 0..(Entries(heap[i]) - 1) :
              /\ (k + 1) * entWidth <= Len(Mmap(files, heap[i]))
              /\ Uint(Mmap(files, heap[i]), k * entWidth, offWidth) = k

\* C18: the size of an index never exceeds the length of its mapping, also
\* when NewLog opens an index file written under another MaxIndexBytes, so
\* that index.Read never slices beyond the mapping.
C18_IndexWithinMap ==
    /\ \A i \in OpenSegments : heap[i].indexSize <= heap[i].mmapLen
    /\ last.op \in {"NewLog", "NewLogWith", "Read"} => last.err # "panic"

\* the bytes of the store of s: the file, then what the buffered writer holds
StoreBytes(st, s) == st.files.data[s.storeFile] \o s.storeBuf

\* the position held by entry k of the index of s
EntryPos(st, s, k) == Uint(Mmap(st.files, s), k * entWidth + offWidth, posWidth)

\* C20: every entry of the index of every segment of the Log holds the
\* position of a whole store entry (the length L at pos has
\* pos + 8 + L <= store size), and the positions go up strictly.
C20_IndexPointsAtEntries ==
    phase = "open" =>
        \A i \in 1..Len(segments) :
            LET s == Segs(State)[i]
            IN  \A k \in 0..(Entries(s) - 1) :
                    /\ (k + 1) * entWidth <= Len(Mmap(files, s))
                    /\ EntryPos(State, s, k) + lenWidth <= Len(StoreBytes(State, s))
                    /\ EntryPos(State, s, k) + lenWidth
                         + Uint(StoreBytes(State, s), EntryPos(State, s, k), lenWidth)
                         <= s.storeSize
                    /\ (k > 0 => EntryPos(State, s, k) > EntryPos(State, s, k - 1))

\* ------------------------------------------------------- a segment alone
\* A segment created by newSegment over an empty directory, with a
\* configuration as NewLog hands it on, and used directly: Append and Read.
InitSeg ==
    \E c \in Configs :
        \E cfg \in { EmptyLog(EmptyDir, TRUE, c).Config } :
        \E r \in { newSegment(EmptyDir, TRUE, cfg.InitialOffset, cfg) } :
            /\ Config = cfg
            /\ heap = <<r.s>>
            /\ segments = <<>>
            /\ activeSegment = 0
            /\ files = r.files
            /\ dirExists = TRUE
            /\ phase = "segment"
            /\ last = Result("newSegment", 0, r.err, 0, NoRecord, 0, <<>>)
            /\ pre = [Config |-> cfg, heap |-> <<r.s>>, segments |-> <<>>,
                      activeSegment |-> 0, files |-> r.files, dirExists |-> TRUE]
            /\ appended = <<>>
            /\ returned = <<>>
            /\ createdEmpty = TRUE
            /\ snap = NoSnap
            /\ nAppends = 0
            /\ reopened = FALSE
            /\ mu = [w |-> FALSE, r |-> 0]
            /\ th = [t \in Threads |-> Idle]
            /\ assigned = <<>>
            /\ rets = <<>>
            /\ nCalls = 0

\* s.Append(record) on the segment
SegAppend(value) ==
    /\ phase = "segment"
    /\ nAppends < MaxSegAppends
    /\ \E r \in { segment_Append(State, 1, value) } :
           /\ SetState(r.st)
           /\ last' = Result("segment.Append", value, r.err, r.off, NoRecord, 0, <<>>)
           /\ appended' = IF r.err = "nil"
                          THEN Append(appended, [off |-> r.off, value |-> value])
                          ELSE appended
           /\ returned' = IF r.err = "nil" THEN Append(returned, r.off) ELSE returned
    /\ pre' = State
    /\ nAppends' = nAppends + 1
    /\ UNCHANGED <<phase, createdEmpty, snap, reopened, concVars>>

\* s.Read(off) on the segment
SegRead(off) ==
    /\ phase = "segment"
    /\ \E r \in { segment_Read(State, 1, off) } :
           /\ SetState(r.st)
           /\ last' = Result("segment.Read", off, r.err, 0, r.rec, 0, <<>>)
    /\ pre' = State
    /\ UNCHANGED <<phase, appended, returned, createdEmpty, snap, nAppends,
                   reopened, concVars>>

NextSeg ==
    \/ \E value \in Values : SegAppend(value)
    \/ \E off \in 0..MaxOff : SegRead(off)

SpecSeg == InitSeg /\ [][NextSeg]_vars

\* the number of entries the index of the segment can hold
Capacity == heap[1].config.MaxIndexBytes \div entWidth

\* C19: a segment whose index holds N entries accepts exactly N Appends,
\* which return baseOffset, baseOffset + 1, ...; every later Append fails
\* with io.EOF and leaves nextOffset and the index as they were, and IsMaxed
\* is then true; a new, empty segment with N >= 1 is not maxed.
C19_SegmentCapacity ==
    /\ Len(returned) = Min(nAppends, Capacity)
    /\ \A i \in 1..Len(returned) : returned[i] = heap[1].baseOffset + (i - 1)
    /\ (last.op = "segment.Append" /\ nAppends > Capacity) =>
          /\ last.err = "EOF"
          /\ heap[1].nextOffset = pre.heap[1].nextOffset
          /\ heap[1].indexSize = pre.heap[1].indexSize
          /\ Mmap(files, heap[1]) = Mmap(pre.files, pre.heap[1])
          /\ segment_IsMaxed(heap[1])
    /\ (nAppends = 0 /\ Capacity >= 1) => ~segment_IsMaxed(heap[1])

\* C19 witness: the third Append on a segment whose index holds two entries
\* failed with io.EOF after two that succeeded.
C19_Witness ==
    /\ last.op = "segment.Append" /\ last.err = "EOF"
    /\ Capacity = 2 /\ nAppends = 3
    /\ returned = <<heap[1].baseOffset, heap[1].baseOffset + 1>>

\* C23: a successful Truncate(w) removes no record above w: every offset
\* above w that Read returned before the call is returned after it with the
\* same record, and every segment the Log retains has the baseOffset, the
\* nextOffset, the store bytes and the index bytes it had.
C23_TruncateKeeps ==
    (last.op = "Truncate" /\ last.err = "nil") =>
        /\ \A k \in (last.arg + 1)..MaxOff :
               ReadResult(pre, k).err = "nil" =>
                   ReadResult(State, k) = ReadResult(pre, k)
        /\ \A j \in 1..Len(segments) :
               LET id == segments[j]
               IN  /\ heap[id].baseOffset = pre.heap[id].baseOffset
                   /\ heap[id].nextOffset = pre.heap[id].nextOffset
                   /\ heap[id].indexSize = pre.heap[id].indexSize
                   /\ StoreBytes(State, heap[id]) = StoreBytes(pre, pre.heap[id])
                   /\ Mmap(files, heap[id]) = Mmap(pre.files, pre.heap[id])

\* ------------------------------------- a segment closed, removed, made again
\* The segment of InitSeg, which its user may Close or Remove and then make
\* again with newSegment over the same directory and base offset, under any
\* configuration NewLog hands on. phase is "segment" while the segment is
\* open, then "closed" or "removed".
SegClose ==
    /\ phase = "segment"
    /\ \E r \in { segment_Close(files, heap[1]) } :
           /\ heap' = <<r.s>>
           /\ files' = r.files
           /\ last' = Result("segment.Close", 0, r.err, 0, NoRecord, 0, <<>>)
           /\ phase' = IF r.err = "nil" THEN "closed" ELSE phase
    /\ pre' = State
    /\ UNCHANGED <<Config, segments, activeSegment, dirExists>>
    /\ UNCHANGED <<appended, returned, createdEmpty, snap, nAppends, reopened,
                   concVars>>

SegRemove ==
    /\ phase \in {"segment", "closed"}
    /\ \E r \in { segment_Remove(files, heap[1]) } :
           /\ heap' = <<r.s>>
           /\ files' = r.files
           /\ last' = Result("segment.Remove", 0, r.err, 0, NoRecord, 0, <<>>)
           /\ phase' = IF r.err = "nil" THEN "removed" ELSE phase
    /\ pre' = State
    /\ UNCHANGED <<Config, segments, activeSegment, dirExists>>
    /\ UNCHANGED <<appended, returned, createdEmpty, snap, nAppends, reopened,
                   concVars>>

\* newSegment(dir, baseOffset, c) once more; last.arg tells what went before
SegNew(c) ==
    /\ phase \in {"closed", "removed"}
    /\ ~reopened
    /\ \E cfg \in { EmptyLog(EmptyDir, TRUE, c).Config } :
       \E r \in { newSegment(files, dirExists, heap[1].baseOffset, cfg) } :
           /\ Config' = cfg
           /\ heap' = IF r.err = "nil" THEN <<r.s>> ELSE heap
           /\ files' = r.files
           /\ last' = Result("newSegment again", phase, r.err, 0, NoRecord, 0, <<>>)
           /\ phase' = IF r.err = "nil" THEN "segment" ELSE "crashed"
    /\ pre' = State
    /\ reopened' = TRUE
    /\ UNCHANGED <<segments, activeSegment, dirExists>>
    /\ UNCHANGED <<appended, returned, createdEmpty, snap, nAppends, concVars>>

NextLife ==
    \/ \E value \in Values : SegAppend(value)
    \/ \E off \in 0..MaxOff : SegRead(off)
    \/ SegClose
    \/ SegRemove
    \/ \E c \in Configs : SegNew(c)

SpecLife == InitSeg /\ [][NextLife]_vars

\* the last call made the segment again, after phase before
MadeAgainAfter(before) ==
    last.op = "newSegment again" /\ last.arg = before /\ last.err = "nil"

\* C22: a segment made again after Remove is fresh and empty (nextOffset is
\* baseOffset, IsMaxed is false, no offset can be read); a segment made again
\* after Close has the store bytes the closed one had, and IsMaxed is true
\* when MaxStoreBytes is at most the size of its store.
C22_RemoveThenNew ==
    /\ MadeAgainAfter("removed") =>
           /\ heap[1].nextOffset = heap[1].baseOffset
           /\ ~segment_IsMaxed(heap[1])
           /\ \A off \in 0..MaxOff : segment_Read(State, 1, off).err # "nil"
    /\ MadeAgainAfter("closed") =>
           /\ StoreBytes(State, heap[1]) = StoreBytes(pre, pre.heap[1])
           /\ heap[1].storeSize = Len(StoreBytes(State, heap[1]))
           /\ (heap[1].config.MaxStoreBytes <= heap[1].storeSize =>
                  segment_IsMaxed(heap[1]))

\* ------------------------------------------- records that do not marshal
\* The Log with callers that also hand Append a record proto.Marshal returns
\* an error for.
MaxLogAppends == 3

Records == Values \cup {Unserializable}

\* l.Append(record), for any record
LogAppend(value) ==
    /\ phase = "open"
    /\ nAppends < MaxLogAppends
    /\ \E r \in { Log_Append(State, value) } :
           /\ SetState(r.st)
           /\ last' = Result("Append", value, r.err, r.off, NoRecord, 0, <<>>)
           /\ appended' = IF r.err = "nil"
                          THEN Append(appended, [off |-> r.off, value |-> value])
                          ELSE appended
           /\ returned' = IF r.err = "nil" THEN Append(returned, r.off) ELSE returned
           /\ phase' = AfterCall(r.err)
    /\ pre' = State
    /\ nAppends' = nAppends + 1
    /\ UNCHANGED <<createdEmpty, snap, reopened, concVars>>

NextSer ==
    \/ \E value \in Records : LogAppend(value)
    \/ \E off \in 0..MaxOff : DoRead(off)
    \/ \E lowest \in 0..MaxOff : DoTruncate(lowest)

SpecSer == Init /\ [][NextSer]_vars

\* the last call was an Append that failed in proto.Marshal
MarshalFailed == last.op = "Append" /\ last.err = "marshal"

\* the offset the Append that was called in state st stamps on its record:
\* the nextOffset of the active segment once Log.Append has decided whether
\* to roll over
StampedOffset(st) ==
    Let([roll \in {Log_AppendRoll(st)} |->
        roll.st.heap[roll.st.activeSegment].nextOffset])

\* the segments of st are segments of the present state, with the same
\* fields and the same store and index files, byte for byte
SegmentsKept(st) ==
    /\ Len(heap) >= Len(st.heap)
    /\ \A i \in 1..Len(st.heap) : heap[i] = st.heap[i]
    /\ Len(files.data) >= Len(st.files.data)
    /\ \A n \in 1..Len(st.files.data) : files.data[n] = st.files.data[n]
    /\ \A name \in DOMAIN st.files.dir :
           name \in DOMAIN files.dir /\ files.dir[name] = st.files.dir[name]

\* C21: when Log.Append fails because the record cannot be serialized, the
\* store, the index and nextOffset of every segment are as before the call,
\* no offset is returned, LowestOffset, the highest offset and every Read
\* answer as before, and the next Append, if it succeeds,
\* returns the offset the failed one had stamped on its record.
C21_MarshalFailure ==
    /\ [](MarshalFailed =>
            /\ SegmentsKept(pre)
            /\ last.off = 0
            /\ Observe(State) = Observe(pre))
    /\ [][(MarshalFailed /\ last'.op = "Append" /\ last'.err = "nil") =>
              last'.off = StampedOffset(pre)]_vars

\* C21 witness: of three Appends the second failed in proto.Marshal after it
\* had rolled the Log over to a second segment, and the third succeeded on
\* that segment, still empty.
C21_Witness ==
    /\ last.op = "Append" /\ last.err = "nil"
    /\ nAppends = 3 /\ Len(returned) = 2
    /\ Len(pre.segments) = 2
    /\ pre.heap[pre.activeSegment].nextOffset = pre.heap[pre.activeSegment].baseOffset
    /\ last.off = pre.heap[pre.activeSegment].baseOffset


\* --------------------------------------------- the Log shared by threads
\* Each call is taken in steps: Lock (l.mu.Lock or RLock is acquired; the
\* call is made no later than this), the body under the lock, Unlock (the
\* deferred Unlock/RUnlock), and Return to the caller. The body of Append is
\* two steps: up to the read of the active segment's nextOffset, and the
\* rest of segment.Append. Remove and Reset go on after the Unlock of the
\* Close they call: os.RemoveAll, then (Reset) setup.
WriteOps == {"Append", "Truncate", "Close", "Remove", "Reset"}
ReadOps == {"Read", "LowestOffset", "Reader"}

Args(op) ==
    CASE op = "Append" -> Values
      [] op \in {"Read", "Truncate"} -> 0..1
      [] OTHER -> {0}

\* Append on a segment whose files are closed is outside the model: it is
\* followed only where its active segment is open, or is replaced by the
\* rollover, or l.segments is empty
AppendDefined(st) ==
    \/ st.segments = <<>>
    \/ ~st.heap[st.activeSegment].closed
    \/ segment_IsMaxed(st.heap[st.activeSegment])

\* the largest offset an Append has returned so far, -1 if none
MaxReturned ==
    IF rets = <<>> THEN -1
    ELSE CHOOSE m \in {rets[i].off : i \in 1..Len(rets)} :
             \A i \in 1..Len(rets) : rets[i].off <= m

\* Lock with a fault: l.mu is taken without waiting for it to be free
Lock_NoWait(t, op, arg) ==
    /\ th[t].pc = "idle"
    /\ nCalls < MaxCalls
    /\ op = "Append" => AppendDefined(State)
    /\ mu' = IF op \in WriteOps THEN [mu EXCEPT !.w = TRUE] ELSE [mu EXCEPT !.r = @ + 1]
    /\ th' = [th EXCEPT ![t] = [Idle EXCEPT !.pc = "locked", !.op = op, !.arg = arg,
                                            !.floor = MaxReturned]]
    /\ nCalls' = nCalls + 1
    /\ UNCHANGED <<progVars, ghostVars, assigned, rets>>

\* thread t calls op(arg) and acquires l.mu: Lock for the writers, RLock for
\* the readers
Lock(t, op, arg) ==
    /\ th[t].pc = "idle"
    /\ nCalls < MaxCalls
    /\ op = "Append" => AppendDefined(State)
    /\ IF op \in WriteOps THEN ~mu.w /\ mu.r = 0 ELSE ~mu.w
    /\ mu' = IF op \in WriteOps THEN [mu EXCEPT !.w = TRUE] ELSE [mu EXCEPT !.r = @ + 1]
    /\ th' = [th EXCEPT ![t] = [Idle EXCEPT !.pc = "locked", !.op = op, !.arg = arg,
                                            !.floor = MaxReturned]]
    /\ nCalls' = nCalls + 1
    /\ UNCHANGED <<progVars, ghostVars, assigned, rets>>

Done(t, off, err) == th' = [th EXCEPT ![t].pc = "done", ![t].off = off, ![t].err = err]

\* Log.Append under the lock, up to cur := s.nextOffset in segment.Append:
\* highestOffset, the rollover, and the read of the active segment's
\* nextOffset
BodyAppendRoll(t) ==
    /\ th[t].pc = "locked" /\ th[t].op = "Append"
    /\ \E r \in { Log_AppendRoll(State) } :
           /\ SetState(r.st)
           /\ th' = IF r.err # "nil"
                    THEN [th EXCEPT ![t].pc = "done", ![t].err = r.err]
                    ELSE [th EXCEPT ![t].pc = "appending",
                                    ![t].seg = r.st.activeSegment,
                                    ![t].off = r.st.heap[r.st.activeSegment].nextOffset]
    /\ UNCHANGED <<ghostVars, mu, assigned, rets, nCalls>>

\* the rest of segment.Append, and of Log.Append
BodyAppendWrite(t) ==
    /\ th[t].pc = "appending"
    /\ \E r \in { segment_AppendAt(State, th[t].seg, th[t].arg, th[t].off) } :
           /\ SetState(r.st)
           /\ Done(t, r.off, r.err)
           /\ assigned' = IF r.err = "nil" THEN Append(assigned, r.off) ELSE assigned
           /\ appended' = IF r.err = "nil"
                          THEN Append(appended, [off |-> r.off, value |-> th[t].arg])
                          ELSE appended
    /\ UNCHANGED <<phase, last, pre, returned, createdEmpty, snap, nAppends, reopened>>
    /\ UNCHANGED <<mu, rets, nCalls>>

\* the body of Log.Read, under the read lock
BodyRead(t) ==
    /\ th[t].pc = "locked" /\ th[t].op = "Read"
    /\ \E r \in { Log_Read(State, th[t].arg) } :
           SetState(r.st) /\ Done(t, 0, r.err)
    /\ UNCHANGED <<ghostVars, mu, assigned, rets, nCalls>>

\* the body of Log.LowestOffset, under the read lock
BodyLowestOffset(t) ==
    /\ th[t].pc = "locked" /\ th[t].op = "LowestOffset"
    /\ Done(t, LowestOffset(State).off, LowestOffset(State).err)
    /\ UNCHANGED <<progVars, ghostVars, mu, assigned, rets, nCalls>>

\* the body of Log.Reader, under the read lock: the readers are made, nothing
\* is read yet; k0 is the number of records appended so far
BodyReader(t) ==
    /\ th[t].pc = "locked" /\ th[t].op = "Reader"
    /\ th' = [th EXCEPT ![t].pc = "done", ![t].off = Len(Log_Reader(State)),
                        ![t].readers = Log_Reader(State), ![t].k0 = Len(appended)]
    /\ UNCHANGED <<progVars, ghostVars, mu, assigned, rets, nCalls>>

\* the body of Log.Truncate, under the lock
BodyTruncate(t) ==
    /\ th[t].pc = "locked" /\ th[t].op = "Truncate"
    /\ \E r \in { Log_Truncate(State, th[t].arg) } :
           SetState(r.st) /\ Done(t, 0, r.err)
    /\ UNCHANGED <<ghostVars, mu, assigned, rets, nCalls>>

\* the body of Log.Close, under the lock: called as Close, or by Remove, or by
\* the Remove of Reset
BodyClose(t) ==
    /\ th[t].pc = "locked" /\ th[t].op \in {"Close", "Remove", "Reset"}
    /\ \E r \in { Log_Close(State) } :
           SetState(r.st) /\ Done(t, 0, r.err)
    /\ UNCHANGED <<ghostVars, mu, assigned, rets, nCalls>>

\* the deferred Unlock / RUnlock; Remove and Reset go on if Close succeeded
Unlock(t) ==
    /\ th[t].pc = "done"
    /\ mu' = IF th[t].op \in WriteOps THEN [mu EXCEPT !.w = FALSE]
             ELSE [mu EXCEPT !.r = @ - 1]
    /\ th' = [th EXCEPT ![t].pc =
                 IF th[t].op \in {"Remove", "Reset"} /\ th[t].err = "nil"
                 THEN "removeAll" ELSE "returning"]
    /\ UNCHANGED <<progVars, ghostVars, assigned, rets, nCalls>>

\* os.RemoveAll(l.Dir) of Log.Remove, after Close has returned
StepRemoveAll(t) ==
    /\ th[t].pc = "removeAll"
    /\ SetState(RemoveAll(State))
    /\ th' = [th EXCEPT ![t].pc = IF th[t].op = "Reset" THEN "setup" ELSE "returning"]
    /\ UNCHANGED <<ghostVars, mu, assigned, rets, nCalls>>

\* l.setup() of Log.Reset, after Remove has returned
StepSetup(t) ==
    /\ th[t].pc = "setup"
    /\ \E r \in { setup(State) } :
           /\ SetState(r.st)
           /\ th' = [th EXCEPT ![t].pc = "returning", ![t].err = r.err]
    /\ UNCHANGED <<ghostVars, mu, assigned, rets, nCalls>>

\* the call returns to its caller
Return(t) ==
    /\ th[t].pc = "returning"
    /\ rets' = IF th[t].op = "Append" /\ th[t].err = "nil"
               THEN Append(rets, [off |-> th[t].off, floor |-> th[t].floor])
               ELSE rets
    /\ th' = IF th[t].op = "Reader" THEN [th EXCEPT ![t].pc = "reading"]
             ELSE [th EXCEPT ![t] = Idle]
    /\ UNCHANGED <<progVars, ghostVars, mu, assigned, nCalls>>

\* the caller of Log.Reader reads the next ReadBufLen bytes of the stream:
\* originalReader.Read on the first reader left, with no lock of the Log
\* held; a reader that reports EOF is dropped (io.MultiReader), any other
\* error ends the stream
ReadChunk(t) ==
    /\ th[t].pc = "reading"
    /\ th[t].readers # <<>>
    /\ \E r \in { originalReader_Read(State, Head(th[t].readers), ReadBufLen) } :
           /\ SetState(r.st)
           /\ th' = [th EXCEPT
                       ![t].bytes = @ \o r.p,
                       ![t].err = IF r.err = "EOF" THEN "nil" ELSE r.err,
                       ![t].readers = IF r.err = "EOF" THEN Tail(@)
                                      ELSE IF r.err = "nil" THEN <<r.o>> \o Tail(@)
                                      ELSE <<>>]
    /\ UNCHANGED <<ghostVars, mu, assigned, rets, nCalls>>

\* the stream is at its end: the caller is done with it
EndRead(t) ==
    /\ th[t].pc = "reading"
    /\ th[t].readers = <<>>
    /\ th' = [th EXCEPT ![t] = Idle]
    /\ UNCHANGED <<progVars, ghostVars, mu, assigned, rets, nCalls>>

NextConc ==
    \E t \in Threads :
        \/ \E op \in WriteOps \cup ReadOps : \E arg \in Args(op) : Lock(t, op, arg)
        \/ BodyAppendRoll(t)
        \/ BodyAppendWrite(t)
        \/ BodyRead(t)
        \/ BodyLowestOffset(t)
        \/ BodyReader(t)
        \/ BodyTruncate(t)
        \/ BodyClose(t)
        \/ Unlock(t)
        \/ StepRemoveAll(t)
        \/ StepSetup(t)
        \/ Return(t)
        \/ ReadChunk(t)
        \/ EndRead(t)

SpecConc == Init /\ [][NextConc]_vars

\* C8 as stated: the offsets returned by the successful Appends of all
\* threads, taken in the order in which the calls returned, are strictly
\* increasing (no two equal, and none at or below one returned before it).
C8_ReturnOrder ==
    \A i \in 1..Len(rets) : \A j \in (i + 1)..Len(rets) : rets[j].off > rets[i].off

\* C8: no two successful Appends return the same offset, the offsets are
\* given out in strictly increasing order under the lock, and an Append that
\* is called after an Append has returned offset k returns an offset above k.
C8_StrictOffsets ==
    /\ \A i \in 1..Len(rets) : \A j \in (i + 1)..Len(rets) : rets[j].off # rets[i].off
    /\ \A i \in 1..(Len(assigned) - 1) : assigned[i + 1] > assigned[i]
    /\ \A i \in 1..Len(rets) : rets[i].off > rets[i].floor

\* C8 witness: two Appends that overlapped (the second was called before the
\* first returned) have both returned, and a third Append, called after
\* them, has returned too.
C8_Witness ==
    /\ Len(rets) = 3
    /\ rets[1].floor = -1 /\ rets[2].floor = -1
    /\ rets[3].floor >= 0

\* thread t is inside a call that needs exclusive access: from its Lock to
\* the end of what the call does to the Log
Exclusive(t) ==
    /\ th[t].op \in WriteOps
    /\ th[t].pc \in {"locked", "appending", "done", "removeAll", "setup"}

\* thread t is executing a Log operation: it is past its Lock and has not
\* finished the call's work
Executing(t) == th[t].pc \in {"locked", "appending", "done", "removeAll", "setup"}

\* C9: while a thread is inside Append, Truncate, Close, Remove (through the
\* deletion of the directory) or Reset (through the end of setup), no other
\* thread is executing a Log operation.
C9_ExclusiveAccess ==
    \A t \in Threads : \A u \in Threads \ {t} : Exclusive(t) => ~Executing(u)

\* the store entries of the first k records appended to the Log
FramedPrefix(k) ==
    Concat([i \in 1..k |-> Frame(Marshal(appended[i].value, appended[i].off))])

\* C12: with only Appends running beside it (no segment was closed or
\* removed), the stream of a Reader, read to its end, is the records that
\* were appended before the Reader was taken, whole and in offset order,
\* followed by nothing but whole records appended after it.
C12_ConsistentPrefix ==
    \A t \in Threads :
        (/\ th[t].pc = "reading" /\ th[t].readers = <<>> /\ th[t].err = "nil"
         /\ \A i \in 1..Len(heap) : ~heap[i].closed) =>
            \E k \in th[t].k0..Len(appended) : th[t].bytes = FramedPrefix(k)


====
